---- MODULE Spec2Model ----
(***************************************************************************)
(* Model of rir's filesystem-event dispatcher (main.go): the watch loop,   *)
(* the per-directory pattern matching, and the asynchronous retest/reload  *)
(* actions started through do.                                             *)
(*                                                                         *)
(* Strings are sequences of one-character strings so that filepath.Join    *)
(* and filepath.Match can be computed character by character.              *)
(***************************************************************************)
EXTENDS Bags, FiniteSets, Integers, Sequences, TLC

VARIABLES
  cfg,        \* Config: cfg.Dirs is the ordered list of watched directories
  events,     \* values in flight on w.Events
  evClosed,   \* w.Events has been closed
  errors,     \* values in flight on w.Errors
  errClosed,  \* w.Errors has been closed
  pc,         \* position of the watch goroutine: "select", "range", "done"
  idx,        \* index of the next directory the range loop of watch visits
  consumed,   \* every event received from w.Events so far, in order
  nerrs,      \* number of error values the watcher has produced so far
  tasks,      \* one record per `go do(...)` statement executed by watch
  logs,       \* bag of the records written to the zap logger
  reloads,    \* number of livereload.ForceRefresh calls
  crashed,    \* an unrecovered panic has killed the process
  runPc,      \* position of run: "adding", "running", "failed", "returned",
              \* and "panicked" once main has panicked with run's error
  nreg        \* number of directories run has registered with w.Add

vars == <<cfg, events, evClosed, errors, errClosed, pc, idx, consumed, nerrs,
          tasks, logs, reloads, crashed, runPc, nreg>>

\* The state of run, which no step of the watcher, of watch or of an action
\* changes.
runVars == <<runPc, nreg>>

----------------------------------------------------------------------------
(* Bounds of the model.                                                    *)

\* The longest cfg.Dirs of a configuration.
MaxDirs == 2
\* The most events the watcher delivers in a run.
MaxEvents == 2
\* The most errors the watcher delivers in a run.
MaxErrors == 1
\* The most actions the delivered events launch in a run.
MaxTasks == 2

----------------------------------------------------------------------------
(* path/filepath on character sequences.                                   *)

Separator == "/"

\* filepath.Match for patterns made of literals, '*' and '?': '*' matches
\* any run of non-separator characters, '?' one non-separator character,
\* and the whole name must be matched.
RECURSIVE Match(_, _)
Match(pattern, name) ==
  IF pattern = <<>> THEN name = <<>>
  ELSE IF Head(pattern) = "*"
    THEN \/ Match(Tail(pattern), name)
         \/ /\ name # <<>>
            /\ Head(name) # Separator
            /\ Match(pattern, Tail(name))
  ELSE IF Head(pattern) = "?"
    THEN /\ name # <<>>
         /\ Head(name) # Separator
         /\ Match(Tail(pattern), Tail(name))
  ELSE /\ name # <<>>
       /\ Head(name) = Head(pattern)
       /\ Match(Tail(pattern), Tail(name))

\* The elements of a path between separators.
RECURSIVE SplitPath(_)
SplitPath(s) ==
  IF s = <<>> THEN << <<>> >>
  ELSE IF Head(s) = Separator THEN << <<>> >> \o SplitPath(Tail(s))
  ELSE LET r == SplitPath(Tail(s))
       IN  << <<Head(s)>> \o Head(r) >> \o Tail(r)

\* filepath.Clean on the elements: drops empty and "." elements and
\* resolves ".." against the preceding element.
RECURSIVE CleanSegs(_, _, _)
CleanSegs(segs, out, rooted) ==
  IF segs = <<>> THEN out
  ELSE LET s == Head(segs) IN
    IF s = <<>> \/ s = <<".">> THEN CleanSegs(Tail(segs), out, rooted)
    ELSE IF s = <<".", ".">> THEN
      IF out # <<>> /\ out[Len(out)] # <<".", ".">>
        THEN CleanSegs(Tail(segs), SubSeq(out, 1, Len(out) - 1), rooted)
      ELSE IF rooted THEN CleanSegs(Tail(segs), out, rooted)
      ELSE CleanSegs(Tail(segs), Append(out, s), rooted)
    ELSE CleanSegs(Tail(segs), Append(out, s), rooted)

RECURSIVE JoinSegs(_)
JoinSegs(segs) ==
  IF segs = <<>> THEN <<>>
  ELSE IF Len(segs) = 1 THEN Head(segs)
  ELSE Head(segs) \o <<Separator>> \o JoinSegs(Tail(segs))

Clean(path) ==
  IF path = <<>> THEN <<".">>
  ELSE LET rooted == Head(path) = Separator
           body   == JoinSegs(CleanSegs(SplitPath(path), <<>>, rooted))
       IN  IF rooted THEN <<Separator>> \o body
           ELSE IF body = <<>> THEN <<".">> ELSE body

\* filepath.Join of two elements: empty elements are ignored and the result
\* is cleaned.
Join(a, b) ==
  IF a = <<>> /\ b = <<>> THEN <<>>
  ELSE IF a = <<>> THEN Clean(b)
  ELSE IF b = <<>> THEN Clean(a)
  ELSE Clean(a \o <<Separator>> \o b)

----------------------------------------------------------------------------
(* Configuration and events.                                               *)

Proj == <<"/", "p", "r", "o", "j">>
ProjSlash == <<"/", "p", "r", "o", "j", "/">>

\* The directory of the spec's example: *_test.go / *.gotmpl /
\* *.screenshot.jpeg under /proj, test command go test ./...
DirProj ==
  [Path |-> Proj,
   TemplateFilePattern |-> <<"*", ".", "g", "o", "t", "m", "p", "l">>,
   TestFilePattern |-> <<"*", "_", "t", "e", "s", "t", ".", "g", "o">>,
   ScreenshotFilePattern |->
     <<"*", ".", "s", "c", "r", "e", "e", "n", "s", "h", "o", "t", ".",
       "j", "p", "e", "g">>,
   TestCommand |-> <<"go", "test", "./...">>]

\* A directory whose patterns overlap: foo* / *.* / *.*.*
DirOverlap ==
  [Path |-> Proj,
   TemplateFilePattern |-> <<"*", ".", "*">>,
   TestFilePattern |-> <<"f", "o", "o", "*">>,
   ScreenshotFilePattern |-> <<"*", ".", "*", ".", "*">>,
   TestCommand |-> <<"make", "test">>]

\* A directory written with a trailing separator and no test_command.
DirNoCmd ==
  [Path |-> ProjSlash,
   TemplateFilePattern |-> <<>>,
   TestFilePattern |-> <<"*", "_", "t", "e", "s", "t", ".", "g", "?">>,
   ScreenshotFilePattern |-> <<"*", ".", "j", "p", "e", "g">>,
   TestCommand |-> <<>>]

\* The [[dir]] tables a rir.toml is written from, in file order; a
\* configuration lists up to MaxDirs consecutive ones.
DirOrder == <<DirProj, DirOverlap, DirNoCmd>>

Windows ==
  {w \in (1..Len(DirOrder)) \X (1..Len(DirOrder)) :
     w[1] <= w[2] /\ w[2] - w[1] < MaxDirs}

Configs == {[Dirs |-> SubSeq(DirOrder, w[1], w[2])] : w \in Windows}

FooTest ==
  <<"/", "p", "r", "o", "j", "/", "f", "o", "o", "_", "t", "e", "s", "t",
    ".", "g", "o">>
Screenshot ==
  <<"/", "p", "r", "o", "j", "/", "p", "r", "o", "f", "i", "l", "e", ".",
    "s", "c", "r", "e", "e", "n", "s", "h", "o", "t", ".", "j", "p", "e",
    "g">>
Readme ==
  <<"/", "p", "r", "o", "j", "/", "R", "E", "A", "D", "M", "E", ".", "m",
    "d">>

Names == {FooTest, Screenshot, Readme}

Event(name, op) == [Name |-> name, Op |-> op]

Events ==
  {Event(FooTest, "Write"), Event(Screenshot, "Write"),
   Event(Readme, "Write"), Event(FooTest, "Chmod")}
ErrVals == {"overflow"}

----------------------------------------------------------------------------
(* Log records.                                                            *)

\* A zap record: its level and message, and the fields it carries.  task
\* is the action the record was written by (0 for the watch goroutine).
LogRec(level, msg, task, field) ==
  [level |-> level, msg |-> msg, task |-> task, field |-> field]

Log(rec) == logs' = logs (+) SetToBag({rec})

----------------------------------------------------------------------------
(* The three matches of one iteration of the range loop.                   *)

\* The results of the three filepath.Match calls of the loop body, tabulated
\* for every directory and event name of the model.
Matched ==
  [wdir \in {DirOrder[k] : k \in 1..Len(DirOrder)}, name \in Names |->
    [test |-> Match(Join(wdir.Path, wdir.TestFilePattern), name),
     template |-> Match(Join(wdir.Path, wdir.TemplateFilePattern), name),
     screenshot |-> Match(Join(wdir.Path, wdir.ScreenshotFilePattern), name)]]

MatchesTest(wdir, name) == Matched[wdir, name].test
MatchesTemplate(wdir, name) == Matched[wdir, name].template
MatchesScreenshot(wdir, name) == Matched[wdir, name].screenshot

\* A task as created by `go do(logs, m, f)`: the event and directory of
\* the iteration that created it, the pattern that matched, the closure's
\* kind and the message do logs on failure.
NewTask(e, d, pat, kind, m) ==
  [ev |-> e, dir |-> d, pat |-> pat, kind |-> kind, m |-> m,
   st |-> "go_do", wdir |-> 0, exit |-> "none"]

\* Variant of the loop body that starts one action per matched pattern.
DispatchPerPattern(e, d, wdir, name) ==
  (IF MatchesTest(wdir, name)
     THEN <<NewTask(e, d, "test", "Retest", "failed to test")>> ELSE <<>>)
  \o (IF MatchesTemplate(wdir, name)
        THEN <<NewTask(e, d, "template", "Retest", "failed to test")>>
        ELSE <<>>)
  \o (IF MatchesScreenshot(wdir, name)
        THEN <<NewTask(e, d, "screenshot", "Reload", "failed to reload")>>
        ELSE <<>>)

\* Variant of the loop body whose screenshot test is an `if` of its own
\* instead of the last `else if`.
DispatchPerCategory(e, d, wdir, name) ==
  (IF MatchesTest(wdir, name)
     THEN <<NewTask(e, d, "test", "Retest", "failed to test")>>
   ELSE IF MatchesTemplate(wdir, name)
     THEN <<NewTask(e, d, "template", "Retest", "failed to test")>>
   ELSE <<>>)
  \o (IF MatchesScreenshot(wdir, name)
        THEN <<NewTask(e, d, "screenshot", "Reload", "failed to reload")>>
        ELSE <<>>)

\* Variant of the loop body whose screenshot branch repeats the retest
\* statement of the branches above it.
DispatchScreenshotRetests(e, d, wdir, name) ==
  IF MatchesTest(wdir, name)
    THEN <<NewTask(e, d, "test", "Retest", "failed to test")>>
  ELSE IF MatchesTemplate(wdir, name)
    THEN <<NewTask(e, d, "template", "Retest", "failed to test")>>
  ELSE IF MatchesScreenshot(wdir, name)
    THEN <<NewTask(e, d, "screenshot", "Retest", "failed to test")>>
  ELSE <<>>

\* Variant of the loop body with a final `else` that reloads.
DispatchElseReloads(e, d, wdir, name) ==
  IF MatchesTest(wdir, name)
    THEN <<NewTask(e, d, "test", "Retest", "failed to test")>>
  ELSE IF MatchesTemplate(wdir, name)
    THEN <<NewTask(e, d, "template", "Retest", "failed to test")>>
  ELSE <<NewTask(e, d, "screenshot", "Reload", "failed to reload")>>

\* Variant of the loop body that starts nothing for a directory while an
\* earlier action of that directory has not finished.
DispatchSingleFlight(e, d, wdir, name) ==
  IF \E t \in 1..Len(tasks) :
       tasks[t].dir = d /\ tasks[t].st \in {"go_do", "running"}
    THEN <<>>
  ELSE IF MatchesTest(wdir, name)
    THEN <<NewTask(e, d, "test", "Retest", "failed to test")>>
  ELSE IF MatchesTemplate(wdir, name)
    THEN <<NewTask(e, d, "template", "Retest", "failed to test")>>
  ELSE IF MatchesScreenshot(wdir, name)
    THEN <<NewTask(e, d, "screenshot", "Reload", "failed to reload")>>
  ELSE <<>>

\* Variant of the loop body that tests the screenshot pattern first.
DispatchScreenshotFirst(e, d, wdir, name) ==
  IF MatchesScreenshot(wdir, name)
    THEN <<NewTask(e, d, "screenshot", "Reload", "failed to reload")>>
  ELSE IF MatchesTest(wdir, name)
    THEN <<NewTask(e, d, "test", "Retest", "failed to test")>>
  ELSE IF MatchesTemplate(wdir, name)
    THEN <<NewTask(e, d, "template", "Retest", "failed to test")>>
  ELSE <<>>

\* The if / else-if chain of the loop body: the tasks one iteration starts.
Dispatch(e, d, wdir, name) ==
  IF MatchesTest(wdir, name)
    THEN <<NewTask(e, d, "test", "Retest", "failed to test")>>
  ELSE IF MatchesTemplate(wdir, name)
    THEN <<NewTask(e, d, "template", "Retest", "failed to test")>>
  ELSE IF MatchesScreenshot(wdir, name)
    THEN <<NewTask(e, d, "screenshot", "Reload", "failed to reload")>>
  ELSE <<>>

\* Variant of the Chmod test that ignores nothing.
IgnoredNever(e) == FALSE

\* ev.Op == fsnotify.Chmod: the event is ignored.
Ignored(e) == e.Op = "Chmod"

\* The number of actions watch launches for the events of es.
RECURSIVE Launches(_, _)
Launches(dirs, es) ==
  IF es = <<>> THEN 0
  ELSE Launches(dirs, Tail(es))
       + IF Ignored(Head(es)) THEN 0
         ELSE Cardinality({d \in 1..Len(dirs) :
                Dispatch(0, d, dirs[d], Head(es).Name) # <<>>})

----------------------------------------------------------------------------
(* The watcher (fsnotify), seen from the dispatcher.  w.Events and         *)
(* w.Errors are unbuffered: at most one send is pending on each.           *)

Init ==
  /\ cfg \in Configs
  /\ events = <<>>
  /\ evClosed = FALSE
  /\ errors = <<>>
  /\ errClosed = FALSE
  /\ pc = "select"
  /\ idx = 0
  /\ consumed = <<>>
  /\ nerrs = 0
  /\ tasks = <<>>
  /\ logs = EmptyBag
  /\ reloads = 0
  /\ crashed = FALSE
  /\ runPc = "running"
  /\ nreg = Len(cfg.Dirs)

\* The watcher offers an event on w.Events; it has events only for
\* directories that were added to it.
SendEvent ==
  /\ ~crashed
  /\ UNCHANGED runVars
  /\ nreg >= 1
  /\ ~evClosed
  /\ events = <<>>
  /\ Len(consumed) < MaxEvents
  /\ \E e \in Events :
       /\ Launches(cfg.Dirs, Append(consumed, e)) <= MaxTasks
       /\ events' = <<e>>
  /\ UNCHANGED <<cfg, evClosed, errors, errClosed, pc, idx, consumed, nerrs,
                 tasks, logs, reloads, crashed>>

\* The watcher offers an error on w.Errors.
SendError ==
  /\ ~crashed
  /\ UNCHANGED runVars
  /\ ~errClosed
  /\ errors = <<>>
  /\ nerrs < MaxErrors
  /\ \E e \in ErrVals : errors' = <<e>>
  /\ nerrs' = nerrs + 1
  /\ UNCHANGED <<cfg, events, evClosed, errClosed, pc, idx, consumed, tasks,
                 logs, reloads, crashed>>

\* The watcher closes w.Events.
CloseEvents ==
  /\ ~crashed
  /\ UNCHANGED runVars
  /\ ~evClosed
  /\ evClosed' = TRUE
  /\ UNCHANGED <<cfg, events, errors, errClosed, pc, idx, consumed, nerrs,
                 tasks, logs, reloads, crashed>>

\* The watcher closes w.Errors.
CloseErrors ==
  /\ ~crashed
  /\ UNCHANGED runVars
  /\ ~errClosed
  /\ errClosed' = TRUE
  /\ UNCHANGED <<cfg, events, evClosed, errors, pc, idx, consumed, nerrs,
                 tasks, logs, reloads, crashed>>

----------------------------------------------------------------------------
(* watch: the dispatcher loop.                                             *)

\* Variant of the event case that receives only once every launched action
\* has finished.
WatchRecvEventWaits ==
  /\ ~crashed
  /\ UNCHANGED runVars
  /\ pc = "select"
  /\ events # <<>>
  /\ \A t \in 1..Len(tasks) : tasks[t].st = "done"
  /\ events' = Tail(events)
  /\ consumed' = Append(consumed, Head(events))
  /\ IF Ignored(Head(events))
       THEN /\ pc' = "select"
            /\ UNCHANGED <<idx, logs>>
       ELSE IF Len(cfg.Dirs) = 0
         THEN /\ pc' = "select"
              /\ Log(LogRec("Debug", "fsnotify event", 0, Len(consumed) + 1))
              /\ UNCHANGED idx
         ELSE /\ pc' = "range"
              /\ idx' = 1
              /\ UNCHANGED logs
  /\ UNCHANGED <<cfg, evClosed, errors, errClosed, nerrs, tasks, reloads,
                 crashed>>

\* case ev, ok := <-w.Events with ok: a Chmod event is skipped, any other
\* event enters the range loop over cfg.Dirs.
WatchRecvEvent ==
  /\ ~crashed
  /\ UNCHANGED runVars
  /\ pc = "select"
  /\ events # <<>>
  /\ events' = Tail(events)
  /\ consumed' = Append(consumed, Head(events))
  /\ IF Ignored(Head(events))
       THEN /\ pc' = "select"
            /\ UNCHANGED <<idx, logs>>
       ELSE IF Len(cfg.Dirs) = 0
         THEN /\ pc' = "select"
              /\ Log(LogRec("Debug", "fsnotify event", 0, Len(consumed) + 1))
              /\ UNCHANGED idx
         ELSE /\ pc' = "range"
              /\ idx' = 1
              /\ UNCHANGED logs
  /\ UNCHANGED <<cfg, evClosed, errors, errClosed, nerrs, tasks, reloads,
                 crashed>>

\* Variant of the range loop that leaves the loop after the first
\* directory that launched an action.
WatchRangeBreaks ==
  /\ ~crashed
  /\ UNCHANGED runVars
  /\ pc = "range"
  /\ tasks' = tasks \o Dispatch(Len(consumed), idx, cfg.Dirs[idx],
                                 consumed[Len(consumed)].Name)
  /\ IF idx < Len(cfg.Dirs) /\ tasks' = tasks
       THEN /\ idx' = idx + 1
            /\ UNCHANGED <<pc, logs>>
       ELSE /\ pc' = "select"
            /\ idx' = 0
            /\ Log(LogRec("Debug", "fsnotify event", 0, Len(consumed)))
  /\ UNCHANGED <<cfg, events, evClosed, errors, errClosed, consumed, nerrs,
                 reloads, crashed>>

\* One iteration of `for _, wdir := range cfg.Dirs`: the matching chain and
\* the go statement it reaches; after the last iteration the Debug record
\* is written and the loop selects again.
WatchRange ==
  /\ ~crashed
  /\ UNCHANGED runVars
  /\ pc = "range"
  /\ tasks' = tasks \o Dispatch(Len(consumed), idx, cfg.Dirs[idx],
                                 consumed[Len(consumed)].Name)
  /\ IF idx < Len(cfg.Dirs)
       THEN /\ idx' = idx + 1
            /\ UNCHANGED <<pc, logs>>
       ELSE /\ pc' = "select"
            /\ idx' = 0
            /\ Log(LogRec("Debug", "fsnotify event", 0, Len(consumed)))
  /\ UNCHANGED <<cfg, events, evClosed, errors, errClosed, consumed, nerrs,
                 reloads, crashed>>

\* Variant of the closed-event case that also ends the test commands
\* still running.
WatchEventsClosedCancels ==
  /\ ~crashed
  /\ UNCHANGED runVars
  /\ pc = "select"
  /\ events = <<>>
  /\ evClosed
  /\ Log(LogRec("Error", "failed to read next event, stopping", 0, "none"))
  /\ pc' = "done"
  /\ tasks' = [t \in 1..Len(tasks) |->
                IF tasks[t].st = "running"
                  THEN [tasks[t] EXCEPT !.st = "done", !.exit = "killed"]
                  ELSE tasks[t]]
  /\ UNCHANGED <<cfg, events, evClosed, errors, errClosed, idx, consumed,
                 nerrs, reloads, crashed>>

\* case ev, ok := <-w.Events with !ok.
WatchEventsClosed ==
  /\ ~crashed
  /\ UNCHANGED runVars
  /\ pc = "select"
  /\ events = <<>>
  /\ evClosed
  /\ Log(LogRec("Error", "failed to read next event, stopping", 0, "none"))
  /\ pc' = "done"
  /\ UNCHANGED <<cfg, events, evClosed, errors, errClosed, idx, consumed,
                 nerrs, tasks, reloads, crashed>>

\* Variant of the error case that returns after logging the error.
WatchRecvErrorReturns ==
  /\ ~crashed
  /\ UNCHANGED runVars
  /\ pc = "select"
  /\ errors # <<>>
  /\ errors' = Tail(errors)
  /\ Log(LogRec("Error", "fsnotify error", 0, Head(errors)))
  /\ pc' = "done"
  /\ UNCHANGED <<cfg, events, evClosed, errClosed, idx, consumed, nerrs,
                 tasks, reloads, crashed>>

\* Variant of the error case that drops the error without a record.
WatchRecvErrorSilent ==
  /\ ~crashed
  /\ UNCHANGED runVars
  /\ pc = "select"
  /\ errors # <<>>
  /\ errors' = Tail(errors)
  /\ UNCHANGED <<cfg, events, evClosed, errClosed, pc, idx, consumed, nerrs,
                 tasks, logs, reloads, crashed>>

\* case err, ok := <-w.Errors with ok.
WatchRecvError ==
  /\ ~crashed
  /\ UNCHANGED runVars
  /\ pc = "select"
  /\ errors # <<>>
  /\ errors' = Tail(errors)
  /\ Log(LogRec("Error", "fsnotify error", 0, Head(errors)))
  /\ UNCHANGED <<cfg, events, evClosed, errClosed, pc, idx, consumed, nerrs,
                 tasks, reloads, crashed>>

\* case err, ok := <-w.Errors with !ok.
WatchErrorsClosed ==
  /\ ~crashed
  /\ UNCHANGED runVars
  /\ pc = "select"
  /\ errors = <<>>
  /\ errClosed
  /\ Log(LogRec("Error", "watcher error, stopping", 0, "none"))
  /\ pc' = "done"
  /\ UNCHANGED <<cfg, events, evClosed, errors, errClosed, idx, consumed,
                 nerrs, tasks, reloads, crashed>>

----------------------------------------------------------------------------
(* do, retest and reload: the goroutine of one action.                     *)

\* The closure passed to do refers to the loop variable wdir.  With one
\* variable per iteration it is the directory of the iteration; with one
\* variable per loop it is whatever the loop has stored by the time the
\* closure runs: the directory of the latest iteration started for the
\* task's event.
LoopVar(e) ==
  IF pc = "range" /\ e = Len(consumed) THEN idx - 1 ELSE Len(cfg.Dirs)

WdirSeen(t) == {tasks[t].dir, LoopVar(tasks[t].ev)}

\* do's goroutine calls f.  retest writes its Info record, indexes
\* TestCommand[0] (a panic when the command is empty) and starts the
\* command, which may fail to start; reload writes its Info record, forces
\* the refresh and returns nil.
TaskCall(t) ==
  /\ ~crashed
  /\ UNCHANGED runVars
  /\ tasks[t].st = "go_do"
  /\ \E w \in WdirSeen(t) :
       LET wdir == cfg.Dirs[w] IN
       IF tasks[t].kind = "Retest"
         THEN /\ UNCHANGED reloads
              /\ IF wdir.TestCommand = <<>>
                   THEN /\ Log(LogRec("Info", "retesting directory", t,
                                      wdir.Path))
                        /\ tasks' = [tasks EXCEPT ![t].st = "panic",
                                                  ![t].wdir = w]
                        /\ crashed' = TRUE
                   ELSE /\ crashed' = crashed
                        /\ \/ /\ Log(LogRec("Info", "retesting directory", t,
                                             wdir.Path))
                              /\ tasks' = [tasks EXCEPT ![t].st = "running",
                                                        ![t].wdir = w]
                           \/ /\ logs' = logs
                                   (+) SetToBag({LogRec("Info",
                                                        "retesting directory",
                                                        t, wdir.Path),
                                                 LogRec("Error", tasks[t].m,
                                                        t, "nostart")})
                              /\ tasks' = [tasks EXCEPT ![t].st = "done",
                                                        ![t].wdir = w,
                                                        ![t].exit = "nostart"]
         ELSE /\ Log(LogRec("Info", "reloading screenshots", t, wdir.Path))
              /\ reloads' = reloads + 1
              /\ tasks' = [tasks EXCEPT ![t].st = "done", ![t].wdir = w,
                                        ![t].exit = "ok"]
              /\ crashed' = crashed
  /\ UNCHANGED <<cfg, events, evClosed, errors, errClosed, pc, idx, consumed,
                 nerrs>>

\* Variant of do that discards the error of f.
TaskExitSilent(t) ==
  /\ ~crashed
  /\ UNCHANGED runVars
  /\ tasks[t].st = "running"
  /\ \/ tasks' = [tasks EXCEPT ![t].st = "done", ![t].exit = "ok"]
     \/ tasks' = [tasks EXCEPT ![t].st = "done", ![t].exit = "failed"]
  /\ UNCHANGED <<cfg, events, evClosed, errors, errClosed, pc, idx, consumed,
                 nerrs, logs, reloads, crashed>>

\* cmd.Run returns: nil on exit status 0, an error otherwise, which do
\* logs with its message.
TaskExit(t) ==
  /\ ~crashed
  /\ UNCHANGED runVars
  /\ tasks[t].st = "running"
  /\ \/ /\ tasks' = [tasks EXCEPT ![t].st = "done", ![t].exit = "ok"]
        /\ UNCHANGED logs
     \/ /\ tasks' = [tasks EXCEPT ![t].st = "done", ![t].exit = "failed"]
        /\ Log(LogRec("Error", tasks[t].m, t, "exit status 1"))
  /\ UNCHANGED <<cfg, events, evClosed, errors, errClosed, pc, idx, consumed,
                 nerrs, reloads, crashed>>

----------------------------------------------------------------------------

Next ==
  \/ SendEvent
  \/ SendError
  \/ CloseEvents
  \/ CloseErrors
  \/ WatchRecvEvent
  \/ WatchRange
  \/ WatchEventsClosed
  \/ WatchRecvError
  \/ WatchErrorsClosed
  \/ \E t \in 1..Len(tasks) : TaskCall(t)
  \/ \E t \in 1..Len(tasks) : TaskExit(t)

Spec == Init /\ [][Next]_vars

\* The select of watch picks among its ready cases at random, so a case
\* that stays ready is eventually taken; the loop body runs to its end.
WatchFairness ==
  /\ WF_vars(WatchRecvEvent)
  /\ WF_vars(WatchRange)
  /\ WF_vars(WatchEventsClosed)
  /\ WF_vars(WatchRecvError)
  /\ WF_vars(WatchErrorsClosed)

FairSpec == Spec /\ WatchFairness

----------------------------------------------------------------------------
(* The start of run: it starts watch, then registers the configured        *)
(* directories one by one.  Spec starts where all of them are registered;  *)
(* StartSpec starts before the first w.Add.                                *)

\* Variant of the deferred close that leaves the watcher open.
RunCloseLeavesOpen ==
  /\ ~crashed
  /\ runPc = "failed"
  /\ runPc' = "returned"
  /\ UNCHANGED <<cfg, events, evClosed, errors, errClosed, pc, idx, consumed,
                 nerrs, tasks, logs, reloads, crashed, nreg>>

\* One iteration of the registration loop whose w.Add succeeds; after the
\* last one run logs that it is running and blocks on ctx.Done().
RunAdd ==
  /\ ~crashed
  /\ runPc = "adding"
  /\ nreg < Len(cfg.Dirs)
  /\ nreg' = nreg + 1
  /\ LET added == LogRec("Info", "added watch for dir", 0,
                         cfg.Dirs[nreg + 1].Path)
         running == LogRec("Info", "running, Ctrl+c to exit", 0, "none")
     IN  IF nreg + 1 = Len(cfg.Dirs)
           THEN /\ logs' = logs (+) SetToBag({added}) (+) SetToBag({running})
                /\ runPc' = "running"
           ELSE /\ Log(added)
                /\ runPc' = "adding"
  /\ UNCHANGED <<cfg, events, evClosed, errors, errClosed, pc, idx, consumed,
                 nerrs, tasks, reloads, crashed>>

\* w.Add returns an error: run leaves the loop with return fmt.Errorf(...).
RunAddFails ==
  /\ ~crashed
  /\ runPc = "adding"
  /\ nreg < Len(cfg.Dirs)
  /\ runPc' = "failed"
  /\ UNCHANGED <<cfg, events, evClosed, errors, errClosed, pc, idx, consumed,
                 nerrs, tasks, logs, reloads, crashed, nreg>>

\* The deferred w.Close() of the returning run: the watcher gives up its
\* pending sends and closes both channels; run has then returned its error.
RunClose ==
  /\ ~crashed
  /\ runPc = "failed"
  /\ events' = <<>>
  /\ evClosed' = TRUE
  /\ errors' = <<>>
  /\ errClosed' = TRUE
  /\ runPc' = "returned"
  /\ UNCHANGED <<cfg, pc, idx, consumed, nerrs, tasks, logs, reloads,
                 crashed, nreg>>

\* main panics with the error run returned, which ends the process.
MainPanic ==
  /\ ~crashed
  /\ runPc = "returned"
  /\ runPc' = "panicked"
  /\ crashed' = TRUE
  /\ UNCHANGED <<cfg, events, evClosed, errors, errClosed, pc, idx, consumed,
                 nerrs, tasks, logs, reloads, nreg>>

StartInit ==
  /\ cfg \in Configs
  /\ events = <<>>
  /\ evClosed = FALSE
  /\ errors = <<>>
  /\ errClosed = FALSE
  /\ pc = "select"
  /\ idx = 0
  /\ consumed = <<>>
  /\ nerrs = 0
  /\ tasks = <<>>
  /\ logs = EmptyBag
  /\ reloads = 0
  /\ crashed = FALSE
  /\ runPc = "adding"
  /\ nreg = 0

StartNext ==
  \/ Next
  \/ RunAdd
  \/ RunAddFails
  \/ RunClose
  \/ MainPanic

StartSpec == StartInit /\ [][StartNext]_vars

----------------------------------------------------------------------------
(* Vocabulary of the properties.                                           *)

Dirs == 1..Len(cfg.Dirs)
Seen == 1..Len(consumed)
Tasks == 1..Len(tasks)

\* The actions launched for event e and directory d.
TasksOf(e, d) == {t \in Tasks : tasks[t].ev = e /\ tasks[t].dir = d}

\* The range loop has finished its iteration for directory d on event e.
Visited(e, d) ==
  \/ e < Len(consumed)
  \/ e = Len(consumed) /\ (pc # "range" \/ d < idx)

MatchesCode(wdir, name) == MatchesTest(wdir, name) \/ MatchesTemplate(wdir, name)

\* How many of the three patterns of wdir the name matches.
MatchCount(wdir, name) ==
  (IF MatchesTest(wdir, name) THEN 1 ELSE 0)
  + (IF MatchesTemplate(wdir, name) THEN 1 ELSE 0)
  + (IF MatchesScreenshot(wdir, name) THEN 1 ELSE 0)

\* The number of Error records task t has written to the bag L.
ErrorCount(L, t) ==
  LET S == {r \in BagToSet(L) : r.level = "Error" /\ r.task = t}
  IN  BagCardinality([r \in S |-> L[r]])

----------------------------------------------------------------------------
(* C1: a Chmod event launches no Retest and no Reload action, for any      *)
(* directory and whatever its path matches: no launched action belongs to  *)
(* a Chmod event, and the loop never enters its range over the directories *)
(* for one.                                                                *)
C1_ChmodLaunchesNothing ==
  /\ \A t \in Tasks : consumed[tasks[t].ev].Op # "Chmod"
  /\ pc = "range" => consumed[Len(consumed)].Op # "Chmod"

\* A Chmod event whose path matches a directory's test pattern has been
\* consumed and the loop is back at its select.
C1_Witness ==
  \E e \in Seen, d \in Dirs :
    /\ consumed[e].Op = "Chmod"
    /\ MatchesTest(cfg.Dirs[d], consumed[e].Name)
    /\ Visited(e, d)
    /\ pc = "select"
    /\ TasksOf(e, d) = {}

(* C2, as stated: a non-Chmod event whose path matches a code pattern and  *)
(* the screenshot pattern of a directory launches both a Retest and a      *)
(* Reload for that directory.                                              *)
C2_BothLaunched ==
  \A e \in Seen, d \in Dirs :
    ( /\ Visited(e, d)
      /\ ~Ignored(consumed[e])
      /\ MatchesCode(cfg.Dirs[d], consumed[e].Name)
      /\ MatchesScreenshot(cfg.Dirs[d], consumed[e].Name) )
    => /\ \E t \in TasksOf(e, d) : tasks[t].kind = "Retest"
       /\ \E t \in TasksOf(e, d) : tasks[t].kind = "Reload"

(* C2, amended: such an event launches exactly one action for that         *)
(* directory, a Retest, and no Reload.                                     *)
C2_OnlyRetestLaunched ==
  \A e \in Seen, d \in Dirs :
    ( /\ Visited(e, d)
      /\ ~Ignored(consumed[e])
      /\ MatchesCode(cfg.Dirs[d], consumed[e].Name)
      /\ MatchesScreenshot(cfg.Dirs[d], consumed[e].Name) )
    => /\ Cardinality(TasksOf(e, d)) = 1
       /\ \A t \in TasksOf(e, d) : tasks[t].kind = "Retest"

\* The loop has passed a directory whose template and screenshot patterns
\* both match the event's path.
C2_Witness ==
  \E e \in Seen, d \in Dirs :
    /\ Visited(e, d)
    /\ ~Ignored(consumed[e])
    /\ MatchesTemplate(cfg.Dirs[d], consumed[e].Name)
    /\ MatchesScreenshot(cfg.Dirs[d], consumed[e].Name)
    /\ TasksOf(e, d) # {}

(* C3, as stated: for a non-Chmod event and a directory, the number of     *)
(* launched actions equals the number of the directory's patterns that     *)
(* the path matches.                                                       *)
C3_OneActionPerPattern ==
  \A e \in Seen, d \in Dirs :
    (Visited(e, d) /\ ~Ignored(consumed[e]))
    => Cardinality(TasksOf(e, d)) = MatchCount(cfg.Dirs[d], consumed[e].Name)

(* C3, amended: the number of launched actions is one when the path        *)
(* matches at least one of the directory's patterns and zero otherwise.    *)
C3_OneActionPerMatchingDir ==
  \A e \in Seen, d \in Dirs :
    (Visited(e, d) /\ ~Ignored(consumed[e]))
    => Cardinality(TasksOf(e, d))
         = IF MatchCount(cfg.Dirs[d], consumed[e].Name) > 0 THEN 1 ELSE 0

\* The loop has passed a directory whose test and template patterns both
\* match the event's path.
C3_Witness ==
  \E e \in Seen, d \in Dirs :
    /\ Visited(e, d)
    /\ ~Ignored(consumed[e])
    /\ MatchesTest(cfg.Dirs[d], consumed[e].Name)
    /\ MatchesTemplate(cfg.Dirs[d], consumed[e].Name)
    /\ Cardinality(TasksOf(e, d)) = 1

(* C4: a non-Chmod event whose path matches exactly one pattern of a       *)
(* directory launches exactly one action for it: a Retest when the pattern *)
(* is the test or the template pattern, a Reload when it is the            *)
(* screenshot pattern.                                                     *)
C4_SingleMatchSingleAction ==
  \A e \in Seen, d \in Dirs :
    ( /\ Visited(e, d)
      /\ ~Ignored(consumed[e])
      /\ MatchCount(cfg.Dirs[d], consumed[e].Name) = 1 )
    => /\ Cardinality(TasksOf(e, d)) = 1
       /\ \A t \in TasksOf(e, d) :
            tasks[t].kind =
              IF MatchesScreenshot(cfg.Dirs[d], consumed[e].Name)
                THEN "Reload" ELSE "Retest"

\* The spec's example: under /proj with *_test.go, *.gotmpl and
\* *.screenshot.jpeg, /proj/foo_test.go has given one Retest and
\* /proj/profile.screenshot.jpeg one Reload.
C4_Witness ==
  /\ cfg.Dirs = <<DirProj>>
  /\ consumed = <<Event(FooTest, "Write"), Event(Screenshot, "Write")>>
  /\ pc = "select"
  /\ Len(tasks) = 2
  /\ tasks[1].kind = "Retest" /\ tasks[1].ev = 1
  /\ tasks[2].kind = "Reload" /\ tasks[2].ev = 2

(* C5: an event whose path matches none of a directory's three joined      *)
(* patterns launches no action for that directory, so an event matching no *)
(* pattern of any directory adds nothing to the launched actions.          *)
C5_NoMatchNoAction ==
  \A e \in Seen, d \in Dirs :
    MatchCount(cfg.Dirs[d], consumed[e].Name) = 0 => TasksOf(e, d) = {}

\* /proj/README.md has gone through the whole range loop after an earlier
\* event launched an action, and the launched actions are those of the
\* earlier event.
C5_Witness ==
  /\ Len(consumed) = 2
  /\ consumed[2] = Event(Readme, "Write")
  /\ \A d \in Dirs : MatchCount(cfg.Dirs[d], Readme) = 0
  /\ pc = "select"
  /\ tasks # <<>>
  /\ \A t \in Tasks : tasks[t].ev = 1

(* C6: the step in which a running test command exits non-zero writes      *)
(* exactly one Error record, the only Error record of that action, and     *)
(* leaves the dispatcher as it was: the loop keeps its position, the       *)
(* process is alive, and both streams and the events consumed so far are   *)
(* untouched, so whatever arrives afterwards is consumed as before.        *)
C6_FailureLoggedOnceLoopGoesOn ==
  /\ [](\A t \in Tasks :
          tasks[t].exit = "failed" => ErrorCount(logs, t) = 1)
  /\ [][\A t \in Tasks :
          (tasks[t].st = "running" /\ tasks'[t].exit = "failed")
          => /\ ErrorCount(logs, t) = 0
             /\ ErrorCount(logs', t) = 1
             /\ BagCardinality(logs') = BagCardinality(logs) + 1
             /\ pc' = pc
             /\ ~crashed'
             /\ UNCHANGED <<events, evClosed, errors, errClosed, consumed,
                            idx>>]_vars

\* A test command has failed and been logged, and the loop is at its
\* select with a later event ready to be received.
C6_Witness ==
  \E t \in Tasks :
    /\ tasks[t].exit = "failed"
    /\ ErrorCount(logs, t) = 1
    /\ pc = "select"
    /\ events # <<>>
    /\ Len(consumed) = tasks[t].ev
    /\ ENABLED WatchRecvEvent

(* C7, as stated: a test command that cannot be started, whatever the      *)
(* test_command of the configuration (an empty one included), ends as an   *)
(* error logged once inside the action's own task, and the process does    *)
(* not crash.                                                              *)
C7_StartFailureSwallowed ==
  \A t \in Tasks :
    (tasks[t].exit = "nostart" \/ tasks[t].st = "panic")
    => /\ tasks[t].st = "done"
       /\ ErrorCount(logs, t) = 1
       /\ ~crashed

(* C8, as stated: once the event stream is closed, the loop eventually     *)
(* returns.                                                                *)
C8_CloseEventsReturns == evClosed ~> (pc = "done")

(* C9, as stated: the loop terminates only on the closure of the event     *)
(* stream.                                                                 *)
C9_ReturnsOnlyWhenEventsClosed == pc = "done" => evClosed

(* C9, amended: the loop listens as long as both streams are open and      *)
(* terminates on the closure of either: it returns only from its select,   *)
(* on a closed and drained event stream or a closed and drained error      *)
(* stream.                                                                 *)
C9_ReturnsWhenEitherClosed ==
  /\ [](pc = "done" => (evClosed \/ errClosed))
  /\ [][(pc # "done" /\ pc' = "done")
        => /\ pc = "select"
           /\ \/ evClosed /\ events = <<>>
              \/ errClosed /\ errors = <<>>]_vars

\* The loop has returned on the closed error stream while the event stream
\* is open and holds an event that is never dispatched.
C9_Witness ==
  /\ pc = "done"
  /\ errClosed
  /\ ~evClosed
  /\ events # <<>>

(* C10: the step that receives an error value from the error stream writes *)
(* exactly one record, the Error record of that value, launches no action  *)
(* and leaves the loop at its select.                                      *)
C10_ErrorLoggedLoopListens ==
  [][Len(errors') < Len(errors)
     => LET rec == LogRec("Error", "fsnotify error", 0, Head(errors))
        IN  /\ CopiesIn(rec, logs') = CopiesIn(rec, logs) + 1
            /\ BagCardinality(logs') = BagCardinality(logs) + 1
            /\ tasks' = tasks
            /\ pc = "select"
            /\ pc' = "select"
            /\ ~crashed'
            /\ UNCHANGED <<events, evClosed, errClosed, consumed>>]_vars

\* An error value has been received and logged, and the loop is at its
\* select, both streams open, with an event ready to be received.
C10_Witness ==
  /\ CopiesIn(LogRec("Error", "fsnotify error", 0, "overflow"), logs) = 1
  /\ errors = <<>>
  /\ pc = "select"
  /\ ~evClosed
  /\ ~errClosed
  /\ tasks = <<>>
  /\ ENABLED WatchRecvEvent

(* C11: there is no per-directory exclusion, debounce or dedup: every      *)
(* non-Chmod event that has passed a directory whose test pattern its path *)
(* matches has its own retest, whatever the state of the directory's       *)
(* earlier retests, and a retest that has not started can start whenever   *)
(* the process is alive, so two retests of one directory run at once.      *)
C11_NoExclusionPerDirectory ==
  /\ \A e \in Seen, d \in Dirs :
       ( /\ Visited(e, d)
         /\ ~Ignored(consumed[e])
         /\ MatchesTest(cfg.Dirs[d], consumed[e].Name) )
       => \E t \in TasksOf(e, d) :
            tasks[t].kind = "Retest" /\ tasks[t].pat = "test"
  /\ \A t \in Tasks :
       (tasks[t].st = "go_do" /\ ~crashed) => ENABLED TaskCall(t)

\* Two events matched the test pattern of the only directory and both
\* retests of that directory are running.
C11_Witness ==
  /\ Len(cfg.Dirs) = 1
  /\ Len(tasks) = 2
  /\ tasks[1].ev = 1 /\ tasks[2].ev = 2
  /\ \A t \in Tasks :
       /\ tasks[t].pat = "test"
       /\ tasks[t].st = "running"
       /\ tasks[t].dir = 1
       /\ tasks[t].wdir = 1

(* C12: the dispatcher never waits for an action: however many launched    *)
(* actions are still running, while the process is alive the loop at its   *)
(* select can receive a pending event or error, and inside its range it    *)
(* can go on to the next directory.                                        *)
C12_DispatcherNeverWaits ==
  ~crashed =>
    /\ (pc = "select" /\ events # <<>>) => ENABLED WatchRecvEvent
    /\ (pc = "select" /\ errors # <<>>) => ENABLED WatchRecvError
    /\ pc = "range" => ENABLED WatchRange

\* Two launched test commands are running, and the loop is at its select
\* with an event and an error to receive.
C12_Witness ==
  /\ Len(tasks) = 2
  /\ \A t \in Tasks : tasks[t].st = "running"
  /\ pc = "select"
  /\ events # <<>>
  /\ errors # <<>>
  /\ ENABLED WatchRecvEvent
  /\ ENABLED WatchRecvError

(* C13: dispatch is ordered per event: the actions are launched in the     *)
(* order of their events, the loop is inside its range only for the latest *)
(* event, and every earlier event has all its actions launched, one for    *)
(* each directory it matches; nothing orders the launched actions' runs.   *)
C13_DispatchOrderedPerEvent ==
  /\ \A t, u \in Tasks : t < u =>
       \/ tasks[t].ev < tasks[u].ev
       \/ tasks[t].ev = tasks[u].ev /\ tasks[t].dir < tasks[u].dir
  /\ \A e \in Seen, d \in Dirs :
       ( /\ e < Len(consumed)
         /\ ~Ignored(consumed[e])
         /\ MatchCount(cfg.Dirs[d], consumed[e].Name) > 0 )
       => TasksOf(e, d) # {}
  /\ \A t \in Tasks : tasks[t].ev = Len(consumed) /\ pc = "range"
                        => tasks[t].dir < idx

\* The second event has been consumed after the first event's action was
\* launched, and the second event's action has finished while the first
\* event's has not started.
C13_Witness ==
  /\ Len(consumed) = 2
  /\ Len(tasks) = 2
  /\ tasks[1].ev = 1 /\ tasks[1].st = "go_do"
  /\ tasks[2].ev = 2 /\ tasks[2].st = "done"

\* The Info records task t has written to the bag L.
InfoRecords(L, t) == {r \in BagToSet(L) : r.level = "Info" /\ r.task = t}

\* The action of task t has ended in a failure: its command exited
\* non-zero or could not be started.
Failed(t) == tasks[t].exit \in {"failed", "nostart"} \/ tasks[t].st = "panic"

(* C14, as stated: every action that has run has written exactly one Info  *)
(* record, which names the directory the action was launched for; every    *)
(* failed action has written exactly one Error record and no other action  *)
(* has written any; every error value received from the error stream has   *)
(* its one Error record.                                                   *)
C14_OneRecordPerActionAndError ==
  /\ \A t \in Tasks :
       IF tasks[t].st = "go_do"
         THEN InfoRecords(logs, t) = {} /\ ErrorCount(logs, t) = 0
         ELSE /\ \E r \in InfoRecords(logs, t) :
                   /\ InfoRecords(logs, t) = {r}
                   /\ CopiesIn(r, logs) = 1
                   /\ r.field = cfg.Dirs[tasks[t].dir].Path
              /\ ErrorCount(logs, t) = IF Failed(t) THEN 1 ELSE 0
  /\ LET S == {r \in BagToSet(logs) :
                   r.level = "Error" /\ r.msg = "fsnotify error"}
     IN  BagCardinality([r \in S |-> logs[r]]) = nerrs - Len(errors)

(* C15, as stated: an action launched for directory D runs against D: the  *)
(* directory whose path it logs and whose test command it executes is the  *)
(* directory of the iteration that launched it.                            *)
C15_ActionRunsItsOwnDirectory ==
  \A t \in Tasks : tasks[t].st # "go_do" => tasks[t].wdir = tasks[t].dir

(* C16, as stated: directories are evaluated independently, an action      *)
(* being launched for every directory the event's path matches, and after  *)
(* the failure of one directory's action the loop can still receive a      *)
(* pending event and finish its range, and every other launched action     *)
(* can still start.                                                        *)
C16_FailureIsolated ==
  /\ \A e \in Seen, d \in Dirs :
       ( /\ Visited(e, d)
         /\ ~Ignored(consumed[e])
         /\ MatchCount(cfg.Dirs[d], consumed[e].Name) > 0 )
       => Cardinality(TasksOf(e, d)) = 1
  /\ (\E t \in Tasks : Failed(t))
       => /\ (pc = "select" /\ events # <<>>) => ENABLED WatchRecvEvent
          /\ pc = "range" => ENABLED WatchRange
          /\ \A u \in Tasks : tasks[u].st = "go_do" => ENABLED TaskCall(u)

(* C17: there is no cancellation: a running test command changes only by   *)
(* exiting by itself, in a step that is no step of the dispatcher or of    *)
(* the watcher; receiving newer events, closing the streams and the        *)
(* return of the loop leave it running.                                    *)
C17_NoCancellation ==
  [][\A t \in Tasks :
       tasks[t].st = "running"
       => \/ tasks'[t] = tasks[t]
          \/ /\ tasks'[t].st = "done"
             /\ tasks'[t].exit \in {"ok", "failed"}
             /\ UNCHANGED <<pc, idx, consumed, events, evClosed, errors,
                            errClosed>>]_vars

\* The loop has returned on the closed event stream after dispatching a
\* newer event for the same directory, and the first event's test command
\* is still running.
C17_Witness ==
  /\ pc = "done"
  /\ evClosed
  /\ Len(tasks) = 2
  /\ tasks[1].st = "running"
  /\ tasks[1].ev = 1
  /\ tasks[2].ev = 2
  /\ tasks[2].dir = tasks[1].dir

(* C19: for every event and directory at most one action is launched,      *)
(* chosen by precedence: a Retest for the test pattern if it matches,      *)
(* otherwise a Retest for the template pattern if it matches, otherwise a  *)
(* Reload if the screenshot pattern matches; no Reload is launched for a   *)
(* path that matches a code pattern of the directory.                      *)
C19_AtMostOneByPrecedence ==
  /\ \A e \in Seen, d \in Dirs : Cardinality(TasksOf(e, d)) <= 1
  /\ \A t \in Tasks :
       LET wdir == cfg.Dirs[tasks[t].dir]
           name == consumed[tasks[t].ev].Name
       IN  /\ tasks[t].pat =
                IF MatchesTest(wdir, name) THEN "test"
                ELSE IF MatchesTemplate(wdir, name) THEN "template"
                ELSE "screenshot"
           /\ tasks[t].kind =
                IF tasks[t].pat = "screenshot" THEN "Reload" ELSE "Retest"
           /\ tasks[t].pat = "screenshot" => MatchesScreenshot(wdir, name)
           /\ tasks[t].kind = "Reload" => ~MatchesCode(wdir, name)

\* One event has been launched for its test pattern although its template
\* pattern matches too, another for its template pattern although its
\* screenshot pattern matches too.
C19_Witness ==
  /\ \E t \in Tasks :
       /\ tasks[t].pat = "test"
       /\ MatchesTemplate(cfg.Dirs[tasks[t].dir],
                          consumed[tasks[t].ev].Name)
  /\ \E t \in Tasks :
       /\ tasks[t].pat = "template"
       /\ MatchesScreenshot(cfg.Dirs[tasks[t].dir],
                            consumed[tasks[t].ev].Name)
  /\ pc = "select"

\* run has left its registration loop with an error.
RunFailed == runPc \in {"failed", "returned", "panicked"}

\* The number of records with message msg that run has written.
RunRecords(msg) ==
  LET S == {r \in BagToSet(logs) : r.level = "Info" /\ r.msg = msg}
  IN  BagCardinality([r \in S |-> logs[r]])

\* What holds of the registration once one w.Add has failed: run has not
\* reached its running state, and exactly the directories before the
\* failing one are registered.
RunStoppedAtFailure ==
  RunFailed
  => /\ nreg < Len(cfg.Dirs)
     /\ RunRecords("added watch for dir") = nreg
     /\ RunRecords("running, Ctrl+c to exit") = 0

(* C18, as stated: if registering a directory fails, run returns an error  *)
(* without reaching the running state, the remaining directories are not   *)
(* registered, and the loop has returned by the time the process ends      *)
(* with that error.                                                        *)
C18_FailedAddLoopReturns ==
  /\ RunStoppedAtFailure
  /\ runPc = "panicked" => pc = "done"

(* C18, amended: if registering a directory fails, run returns an error    *)
(* without reaching the running state and never registers the remaining    *)
(* directories, and its deferred close closes both streams with nothing    *)
(* pending: as long as the process lives, the loop can receive no further  *)
(* event and its select can take the closed case of either stream, which   *)
(* returns.                                                                *)
C18_FailedAddClosesWatcher ==
  /\ []RunStoppedAtFailure
  /\ [](runPc \in {"returned", "panicked"}
         => /\ evClosed /\ events = <<>>
            /\ errClosed /\ errors = <<>>)
  /\ []((runPc = "returned" /\ pc = "select" /\ ~crashed)
         => /\ ~ENABLED WatchRecvEvent
            /\ ~ENABLED WatchRecvError
            /\ ENABLED WatchEventsClosed
            /\ ENABLED WatchErrorsClosed)
  /\ [][RunFailed => RunFailed' /\ nreg' = nreg]_vars

\* The second w.Add has failed after an event of the first directory was
\* dispatched; run has returned and the process still lives with the loop
\* at its select.
C18_Witness ==
  /\ runPc = "returned"
  /\ nreg = 1
  /\ Len(cfg.Dirs) = 2
  /\ Len(tasks) >= 1
  /\ pc = "select"
  /\ ~crashed

====
